---- MODULE Spec2Model ----
(***************************************************************************)
(* Bounded-concurrency fan-out of examples/async_example.py,               *)
(* example_custom_concurrency (lines 145-177):                             *)
(*                                                                         *)
(*     semaphore = asyncio.Semaphore(max_concurrent)                       *)
(*     async def process_with_limit(record_data):                          *)
(*         async with semaphore:                                           *)
(*             return await table.insert_record(record_data)               *)
(*     tasks = [process_with_limit(record) for record in records]          *)
(*     results = await asyncio.gather(tasks...)                            *)
(*                                                                         *)
(* The event loop is cooperative: callbacks run one at a time in FIFO      *)
(* order from the ready queue; the only outside events are completions of  *)
(* the remote insert_record calls, which arrive in any order.              *)
(* The batch size (20 in the source) and the limit (5 in the source) are   *)
(* drawn from 0..MaxN and 1..MaxC.                                         *)
(*                                                                         *)
(* A second specification, SpecDotenv, follows main() of                   *)
(* examples/dotenv_example.py through its six examples and the process     *)
(* environment they read and write.                                        *)
(***************************************************************************)
EXTENDS Integers, Sequences, FiniteSets, TLC

MaxN == 3
MaxC == 3

VARIABLES
    n,          \* len(records)
    c,          \* max_concurrent
    pc,         \* example_custom_concurrency: "start", "gathering", "returned", "raised"
    tpc,        \* per item: position of its process_with_limit coroutine
    value,      \* semaphore._value
    waiters,    \* semaphore._waiters, FIFO, item indices
    ready,      \* event loop ready queue, FIFO
    remote,     \* per item: what table.insert_record produced
    taskResult, \* per item: result/exception of the task wrapping the coroutine
    calls,      \* per item: number of table.insert_record invocations
    acquires,   \* number of permits taken from the semaphore
    nextId,     \* next record id the remote service hands out
    outer,      \* the future returned by asyncio.gather
    nfinished,  \* gather's count of finished children
    results,    \* the caller's `results` list
    raisedExc,  \* exception that left `await asyncio.gather(...)`, "" if none
    dpc,        \* dotenv_example.main: the example it is about to run
    environ0,   \* os.environ when the process started
    environ,    \* os.environ
    config_dict,\* example_dotenv_values: what dotenv_values returned
    printed     \* example_dotenv_values: value printed for NOCODB_BASE_URL

dispatchVars == <<n, c, pc, tpc, value, waiters, ready, remote, taskResult,
                  calls, acquires, nextId, outer, nfinished, results, raisedExc>>

dotenvVars == <<dpc, environ0, environ, config_dict, printed>>

vars == <<dispatchVars, dotenvVars>>

\* The dotenv example is not running.
DotenvIdle ==
    /\ dpc = "idle"
    /\ environ0 = <<>>
    /\ environ = <<>>
    /\ config_dict = <<>>
    /\ printed = ""

Items == 1..n

\* Exception classes the single-record operation raises (imports, lines 48-53).
ErrorKinds == {"RecordNotFoundException", "AuthenticationException",
               "RateLimitException", "NocoDBException"}

\* A Python object produced by a call: a returned value or a raised exception.
NoOutcome == [tag |-> "none", val |-> 0, err |-> ""]
Success(v) == [tag |-> "ok", val |-> v, err |-> ""]
Failure(e) == [tag |-> "err", val |-> 0, err |-> e]

\* Ready-queue entries: a coroutine step of task i, gather's done callback
\* for task i, or the wakeup of the caller awaiting the gather future.
StepOf(i) == [kind |-> "step", id |-> i]
CallbackOf(i) == [kind |-> "cb", id |-> i]
CallerWakeup == [kind |-> "caller", id |-> 0]

PendingFuture == [state |-> "pending", res |-> <<>>, exc |-> ""]

\* asyncio.Semaphore(max_concurrent): initial _value.
SemaphoreInit(maxc) == maxc

LockedNever(v, w) == FALSE

LockedEarly(v, w) == v <= 1 \/ w # <<>>

\* Semaphore.locked(): no permit left, or somebody is already queued.
Locked(v, w) == v = 0 \/ w # <<>>

IssueCallTwice(cs, i) == [cs EXCEPT ![i] = @ + 2]

\* One invocation of table.insert_record(record_data) for item i.
IssueCall(cs, i) == [cs EXCEPT ![i] = @ + 1]

GatherEmptyNever(k) == FALSE

\* gather(): `if not coros_or_futures` -- an already resolved future.
GatherEmpty(k) == k = 0

FirstUnwokenNone(w, t) == 0

\* First waiter whose future is not done yet (Semaphore._wake_up_next).
RECURSIVE FirstUnwoken(_, _)
FirstUnwoken(w, t) ==
    IF w = <<>> THEN 0
    ELSE IF t[Head(w)] = "waiting" THEN Head(w)
    ELSE FirstUnwoken(Tail(w), t)

\* self._waiters.remove(fut)
RECURSIVE RemoveWaiter(_, _)
RemoveWaiter(w, i) ==
    IF w = <<>> THEN <<>>
    ELSE IF Head(w) = i THEN Tail(w)
    ELSE <<Head(w)>> \o RemoveWaiter(Tail(w), i)

\* The item whose call completed k-th among successful calls.
CompletedAs(tr, k) == CHOOSE j \in DOMAIN tr : tr[j].val = k

GatherResultsInCompletionOrder(tr, k) ==
    [j \in 1..k |-> IF \E x \in DOMAIN tr : tr[x].val = j
                    THEN tr[CompletedAs(tr, j)] ELSE tr[j]]

\* gather's result list: [fut.result() for fut in children], in argument order.
GatherResults(tr, k) == [j \in 1..k |-> tr[j]]

Init ==
    /\ n \in 0..MaxN
    /\ c \in 1..MaxC
    /\ pc = "start"
    /\ tpc = [i \in 1..n |-> "created"]
    /\ value = SemaphoreInit(c)
    /\ waiters = <<>>
    /\ ready = <<>>
    /\ remote = [i \in 1..n |-> NoOutcome]
    /\ taskResult = [i \in 1..n |-> NoOutcome]
    /\ calls = [i \in 1..n |-> 0]
    /\ acquires = 0
    /\ nextId = 1
    /\ outer = PendingFuture
    /\ nfinished = 0
    /\ results = <<>>
    /\ raisedExc = ""
    /\ DotenvIdle

\* results = await asyncio.gather(...): every coroutine becomes a task
\* scheduled in argument order and the caller suspends; with no arguments
\* the future is already resolved and the await returns at once.
Gather ==
    /\ pc = "start"
    /\ IF GatherEmpty(n)
       THEN /\ outer' = [state |-> "result", res |-> <<>>, exc |-> ""]
            /\ results' = <<>>
            /\ pc' = "returned"
            /\ UNCHANGED <<tpc, ready>>
       ELSE /\ tpc' = [i \in Items |-> "scheduled"]
            /\ ready' = [i \in 1..n |-> StepOf(i)]
            /\ pc' = "gathering"
            /\ UNCHANGED <<outer, results>>
    /\ UNCHANGED <<n, c, value, waiters, remote, taskResult, calls, acquires,
                   nextId, nfinished, raisedExc>>

\* First step of process_with_limit: `async with semaphore` then the call.
\* With a free permit the coroutine takes it and goes straight on to
\* insert_record, suspending on the remote call; otherwise it queues.
TaskStart(i) ==
    /\ ready # <<>> /\ Head(ready) = StepOf(i)
    /\ tpc[i] = "scheduled"
    /\ IF ~Locked(value, waiters)
       THEN /\ value' = value - 1
            /\ acquires' = acquires + 1
            /\ calls' = IssueCall(calls, i)
            /\ tpc' = [tpc EXCEPT ![i] = "inflight"]
            /\ UNCHANGED waiters
       ELSE /\ waiters' = Append(waiters, i)
            /\ tpc' = [tpc EXCEPT ![i] = "waiting"]
            /\ UNCHANGED <<value, acquires, calls>>
    /\ ready' = Tail(ready)
    /\ UNCHANGED <<n, c, pc, remote, taskResult, nextId, outer, nfinished,
                   results, raisedExc>>

\* A queued coroutine resumes after release() handed it the permit:
\* it leaves the waiter list and issues its call.
TaskWake(i) ==
    /\ ready # <<>> /\ Head(ready) = StepOf(i)
    /\ tpc[i] = "woken"
    /\ waiters' = RemoveWaiter(waiters, i)
    /\ acquires' = acquires + 1
    /\ calls' = IssueCall(calls, i)
    /\ tpc' = [tpc EXCEPT ![i] = "inflight"]
    /\ ready' = Tail(ready)
    /\ UNCHANGED <<n, c, pc, value, remote, taskResult, nextId, outer,
                   nfinished, results, raisedExc>>

\* The remote service answers item i's insert_record: a new record id, or
\* one of the client's exceptions.  The coroutine is scheduled to resume.
RemoteSucceed(i) ==
    /\ tpc[i] = "inflight"
    /\ remote' = [remote EXCEPT ![i] = Success(nextId)]
    /\ nextId' = nextId + 1
    /\ tpc' = [tpc EXCEPT ![i] = "completed"]
    /\ ready' = Append(ready, StepOf(i))
    /\ UNCHANGED <<n, c, pc, value, waiters, taskResult, calls, acquires,
                   outer, nfinished, results, raisedExc>>

RemoteFail(i, e) ==
    /\ tpc[i] = "inflight"
    /\ remote' = [remote EXCEPT ![i] = Failure(e)]
    /\ tpc' = [tpc EXCEPT ![i] = "completed"]
    /\ ready' = Append(ready, StepOf(i))
    /\ UNCHANGED <<n, c, pc, value, waiters, taskResult, calls, acquires,
                   nextId, outer, nfinished, results, raisedExc>>

ReleaseOnSuccessOnly(v, o) == IF o.tag = "ok" THEN v + 1 ELSE v

\* Semaphore.release() from `async with`'s exit: it runs whether the body
\* returned (o is a value) or raised (o is an exception).
Release(v, o) == v + 1

RecordResultInEverySlot(tr, i, o) == [j \in DOMAIN tr |-> o]

\* The task wrapping coroutine i stores what its coroutine returned or raised.
RecordResult(tr, i, o) == [tr EXCEPT ![i] = o]

\* The coroutine resumes from insert_record: `async with` exits and
\* releases the permit (handing it to the first unwoken waiter, if any),
\* the value is returned or the exception leaves the coroutine, and the
\* finished task schedules gather's done callback.
TaskFinish(i) ==
    /\ ready # <<>> /\ Head(ready) = StepOf(i)
    /\ tpc[i] = "completed"
    /\ LET w == FirstUnwoken(waiters, tpc) IN
       IF w = 0
       THEN /\ value' = Release(value, remote[i])
            /\ tpc' = [tpc EXCEPT ![i] = "done"]
            /\ ready' = Append(Tail(ready), CallbackOf(i))
       ELSE /\ value' = Release(value, remote[i]) - 1
            /\ tpc' = [tpc EXCEPT ![i] = "done", ![w] = "woken"]
            /\ ready' = Tail(ready) \o <<StepOf(w), CallbackOf(i)>>
    /\ taskResult' = RecordResult(taskResult, i, remote[i])
    /\ UNCHANGED <<n, c, pc, waiters, remote, calls, acquires, nextId, outer,
                   nfinished, results, raisedExc>>

\* gather's _done_callback for child i (return_exceptions is False).
DoneCallback(i) ==
    /\ ready # <<>> /\ Head(ready) = CallbackOf(i)
    /\ tpc[i] = "done"
    /\ tpc' = [tpc EXCEPT ![i] = "collected"]
    /\ IF outer.state # "pending"
       THEN /\ ready' = Tail(ready)
            /\ UNCHANGED <<outer, nfinished>>
       ELSE IF taskResult[i].tag = "err"
       THEN /\ outer' = [state |-> "exception", res |-> <<>>,
                         exc |-> taskResult[i].err]
            /\ ready' = Append(Tail(ready), CallerWakeup)
            /\ UNCHANGED nfinished
       ELSE /\ nfinished' = nfinished + 1
            /\ IF nfinished + 1 = n
               THEN /\ outer' = [state |-> "result",
                                 res |-> GatherResults(taskResult, n),
                                 exc |-> ""]
                    /\ ready' = Append(Tail(ready), CallerWakeup)
               ELSE /\ ready' = Tail(ready)
                    /\ UNCHANGED outer
    /\ UNCHANGED <<n, c, pc, value, waiters, remote, taskResult, calls,
                   acquires, nextId, results, raisedExc>>

\* The caller resumes from `await asyncio.gather(...)`: the list is bound
\* to `results`, or the child's exception leaves the await.
CallerResume ==
    /\ ready # <<>> /\ Head(ready) = CallerWakeup
    /\ pc = "gathering"
    /\ IF outer.state = "result"
       THEN /\ results' = outer.res
            /\ pc' = "returned"
            /\ UNCHANGED raisedExc
       ELSE /\ raisedExc' = outer.exc
            /\ pc' = "raised"
            /\ UNCHANGED results
    /\ ready' = Tail(ready)
    /\ UNCHANGED <<n, c, tpc, value, waiters, remote, taskResult, calls,
                   acquires, nextId, outer, nfinished>>

Next ==
    \/ Gather /\ UNCHANGED dotenvVars
    \/ \E i \in Items : TaskStart(i) /\ UNCHANGED dotenvVars
    \/ \E i \in Items : TaskWake(i) /\ UNCHANGED dotenvVars
    \/ \E i \in Items : RemoteSucceed(i) /\ UNCHANGED dotenvVars
    \/ \E i \in Items : \E e \in ErrorKinds : RemoteFail(i, e) /\ UNCHANGED dotenvVars
    \/ \E i \in Items : TaskFinish(i) /\ UNCHANGED dotenvVars
    \/ \E i \in Items : DoneCallback(i) /\ UNCHANGED dotenvVars
    \/ CallerResume /\ UNCHANGED dotenvVars

Spec == Init /\ [][Next]_vars

----
TypeOK ==
    /\ n \in 0..MaxN /\ c \in 1..MaxC
    /\ pc \in {"start", "gathering", "returned", "raised"}
    /\ \A i \in Items : tpc[i] \in {"created", "scheduled", "waiting", "woken",
                                    "inflight", "completed", "done", "collected",
                                    "cancelled"}
    /\ value \in 0..c
    /\ nfinished \in 0..n

\* Operations whose remote call has been issued and has not finished.
InFlight == {i \in Items : tpc[i] \in {"inflight", "completed"}}

CallerDone == pc \in {"returned", "raised"}

\* Nothing is left to run: every task finished and its callback ran, the
\* ready queue is empty.
BatchQuiescent ==
    /\ pc # "start"
    /\ ready = <<>>
    /\ \A i \in Items : tpc[i] = "collected"

RECURSIVE SumTo(_, _)
SumTo(f, k) == IF k = 0 THEN 0 ELSE f[k] + SumTo(f, k - 1)

\* Remote calls issued so far by the batch.
TotalCalls == SumTo(calls, n)

----
\* C1: whenever the dispatch has come back to its caller, it has returned a
\* list of exactly n outcomes and position i holds the outcome of item i.
C1_NOutcomesInInputOrder ==
    CallerDone =>
        /\ pc = "returned"
        /\ Len(results) = n
        /\ \A i \in Items : results[i] = taskResult[i]

\* C2: at most c operations hold a remote call that is issued and not yet
\* left by its coroutine.
C2_ConcurrencyBound == Cardinality(InFlight) <= c

\* C2 witness: the limit is reached while further items queue for a permit.
C2_Witness == Cardinality(InFlight) = c /\ waiters # <<>>

\* C3: a failing item never makes the dispatch raise; once the batch is
\* over the call has returned the full list with a Failure at that item.
C3_FailureNeverRaised ==
    /\ pc # "raised"
    /\ BatchQuiescent =>
          /\ pc = "returned"
          /\ Len(results) = n
          /\ \A i \in Items : remote[i].tag = "err" => results[i].tag = "err"

\* C4: after item i failed, every other item j has still run its own
\* operation once the batch is over and has its own outcome recorded.
C4_FailureIsolation ==
    \A i \in Items :
        (BatchQuiescent /\ remote[i].tag = "err") =>
            \A j \in Items \ {i} :
                /\ calls[j] = 1
                /\ remote[j].tag # "none"
                /\ Len(results) = n
                /\ results[j] = remote[j]

\* C5: once the batch is over, the outcome at every failed index is the
\* Failure with that item's error kind and at every other index the
\* Success with that item's own value.
C5_PerItemOutcomes ==
    BatchQuiescent =>
        /\ Len(results) = n
        /\ \A i \in Items :
              /\ remote[i].tag = "err" => results[i] = Failure(remote[i].err)
              /\ remote[i].tag = "ok" => results[i] = Success(remote[i].val)

\* C6: when every item operation succeeded and the dispatch is back, it
\* returned n Successes, the value at position i being the one the remote
\* call for item i returned.
C6_AllSucceed ==
    (CallerDone /\ \A i \in Items : remote[i].tag = "ok") =>
        /\ pc = "returned"
        /\ Len(results) = n
        /\ \A i \in Items : results[i] = Success(remote[i].val)

\* C6 witness: a returned batch whose calls completed out of input order.
C6_Witness ==
    /\ pc = "returned" /\ n >= 2
    /\ \A i \in Items : remote[i].tag = "ok"
    /\ remote[1].val > remote[2].val

\* C7: when every item operation failed, the finished batch has returned a
\* list whose n slots all hold a Failure.
C7_AllFailStillReturns ==
    (n >= 1 /\ BatchQuiescent /\ \A i \in Items : remote[i].tag = "err") =>
        /\ pc = "returned"
        /\ Len(results) = n
        /\ \A i \in Items : results[i].tag = "err"

\* C8: insert_record is never invoked twice for an item, and once the batch
\* is over it was invoked exactly once per item, n calls in total.
C8_NoRetries ==
    /\ \A i \in Items : calls[i] <= 1
    /\ TotalCalls <= n
    /\ BatchQuiescent => (TotalCalls = n /\ \A i \in Items : calls[i] = 1)

\* C8 witness: a finished batch with both a failed and a succeeded item.
C8_Witness ==
    /\ BatchQuiescent
    /\ \E i \in Items : remote[i].tag = "err"
    /\ \E i \in Items : remote[i].tag = "ok"

\* C9: with no items the dispatch goes from its start straight to having
\* returned the empty list; no call is issued and no permit is taken.
C9_EmptyBatch ==
    n = 0 =>
        /\ pc = "start" \/ (pc = "returned" /\ results = <<>>)
        /\ TotalCalls = 0
        /\ acquires = 0
        /\ value = c
        /\ ready = <<>>

\* C9 witness: the empty batch has returned.
C9_Witness == n = 0 /\ pc = "returned" /\ results = <<>>

\* C10: with c >= n no coroutine ever queues on the semaphore.
C10_NoWaitingWhenLimitCoversBatch ==
    c >= n =>
        /\ waiters = <<>>
        /\ \A i \in Items : tpc[i] \notin {"waiting", "woken"}

\* C10 witness: all operations of a batch of at least two are in flight at
\* the same time.
C10_Witness ==
    /\ c >= n /\ n >= 2
    /\ \A i \in Items : tpc[i] = "inflight"

\* C11: what the caller gets from a finished batch does not depend on the
\* order in which the remote calls completed: it is what the run completing
\* the same calls in input order gives (the list of the per-item outcomes,
\* or, with gather's default mode, the exception of the first failing item).
C11_CompletionOrderIndependent ==
    BatchQuiescent =>
        LET failed == {i \in Items : remote[i].tag = "err"}
            first == CHOOSE i \in failed : \A j \in failed : i <= j
        IN  IF failed = {}
            THEN pc = "returned" /\ results = [i \in 1..n |-> remote[i]]
            ELSE pc = "raised" /\ raisedExc = remote[first].err

----
\* An overall timeout imposed by the caller of example_custom_concurrency
\* expires while it is suspended in `await asyncio.gather(...)`.  asyncio
\* delivers it as a cancellation at that await; the function has no
\* except clause, so the cancellation unwinds it.  Cancelling a pending
\* gather future cancels every unfinished child: a queued coroutine leaves
\* the waiter list, a coroutine inside `async with` releases its permit.
TimeoutExpire ==
    /\ pc = "gathering"
    /\ pc' = "raised"
    /\ raisedExc' = "TimeoutError"
    /\ IF outer.state = "pending"
       THEN /\ outer' = [state |-> "cancelled", res |-> <<>>, exc |-> ""]
            /\ tpc' = [i \in Items |->
                         IF tpc[i] \in {"done", "collected"} THEN tpc[i]
                         ELSE "cancelled"]
            /\ value' = value + Cardinality({i \in Items :
                             tpc[i] \in {"woken", "inflight", "completed"}})
            /\ waiters' = <<>>
            /\ ready' = SelectSeq(ready, LAMBDA e : e.kind = "cb")
       ELSE /\ ready' = SelectSeq(ready, LAMBDA e : e # CallerWakeup)
            /\ UNCHANGED <<outer, tpc, value, waiters>>
    /\ UNCHANGED <<n, c, remote, taskResult, calls, acquires, nextId,
                   nfinished, results>>

NextWithTimeout == Next \/ (TimeoutExpire /\ UNCHANGED dotenvVars)

SpecTimeout == Init /\ [][NextWithTimeout]_vars

\* C12: when the overall timeout expires during a batch, the dispatch
\* returns n outcomes: every item already resolved keeps its own outcome,
\* every other item is marked Failure(Timeout).
C12_TimeoutReturnsPartialOutcomes ==
    [][TimeoutExpire =>
         /\ pc' = "returned"
         /\ Len(results') = n
         /\ \A i \in Items :
              results'[i] = IF taskResult[i].tag # "none" THEN taskResult[i]
                            ELSE Failure("Timeout")]_vars

----
\* C13: after a batch with at least one failure is over, the caller holds
\* the full outcome list and a failure view, and the failure view lists
\* exactly the failed indices, each with the error recorded at that index.
C13_FailureViewExact ==
    (BatchQuiescent /\ \E i \in Items : remote[i].tag = "err") =>
        /\ pc = "returned"
        /\ Len(results) = n
        /\ \A i \in Items : results[i] = remote[i]
        /\ LET failureView == {<<i, results[i].err>> :
                                 i \in {j \in Items : results[j].tag = "err"}}
           IN  failureView = {<<i, remote[i].err>> :
                                 i \in {j \in Items : remote[j].tag = "err"}}

\* C14: when the dispatch is back at its caller, with a result or with an
\* exception, no item operation is in flight or waiting for a permit:
\* every task has finished.
C14_ReturnsAfterAllFinished ==
    CallerDone => \A i \in Items : tpc[i] \in {"done", "collected"}

----
\* Tasks that hold a permit: release() handed them one ("woken") or they
\* took one themselves, and they have not released it yet.
PermitHolders == {i \in Items : tpc[i] \in {"woken", "inflight", "completed"}}

\* C15 as stated: free permits plus in-flight operations always equals c.
C15_FreePlusInFlightIsC == value + Cardinality(InFlight) = c

\* C15: every task takes one permit before its call and gives that one
\* permit back when the call finished, after a success and after a failure
\* alike: free permits plus tasks holding a permit is always c, no task
\* takes a second permit, and after the batch the pool holds c again.
C15_PermitConservation ==
    /\ value + Cardinality(PermitHolders) = c
    /\ \A i \in Items : tpc[i] \in {"inflight", "completed"} => calls[i] = 1
    /\ acquires = TotalCalls
    /\ BatchQuiescent => (value = c /\ acquires = n)

\* C15 witness: the batch is over, a failed and a succeeded item both gave
\* their permit back, and some item had to queue for its permit.
C15_Witness ==
    /\ BatchQuiescent /\ n > c /\ value = c
    /\ \E i \in Items : remote[i].tag = "err"
    /\ \E i \in Items : remote[i].tag = "ok"

----
\* C16: only the permit pool holds an item back.  While a permit is free no
\* item is blocked on the semaphore; an item that has not taken its first
\* step is queued behind first steps of earlier items only, never behind a
\* completion; and when an operation finishes while items are blocked on
\* the semaphore, one of them is handed the permit and scheduled in that
\* same step.
C16_OnlyPermitsConstrainStart ==
    /\ [](value > 0 => \A i \in Items : tpc[i] # "waiting")
    /\ [](\A i \in Items : tpc[i] = "scheduled" =>
            \E k \in 1..Len(ready) :
                /\ ready[k] = StepOf(i)
                /\ \A m \in 1..(k - 1) : /\ ready[m].kind = "step"
                                         /\ ready[m].id < i
                                         /\ tpc[ready[m].id] = "scheduled")
    /\ [][\A i \in Items :
            (TaskFinish(i) /\ \E j \in Items : tpc[j] = "waiting") =>
                \E w \in Items : /\ tpc[w] = "waiting"
                                 /\ tpc'[w] = "woken"
                                 /\ \E k \in 1..Len(ready') : ready'[k] = StepOf(w)]_vars

\* C16 witness: with more items than permits, exactly c operations are in
\* flight and one of them is an item beyond the first c, started while an
\* earlier item is still in flight.
C16_Witness ==
    /\ n > c
    /\ Cardinality({i \in Items : tpc[i] = "inflight"}) = c
    /\ \E i, j \in Items : i < j /\ j > c /\ tpc[i] = "inflight" /\ tpc[j] = "inflight"

----
\* C17: the result slot of item i is written by the end of item i's own
\* operation only, once, with that item's outcome, and that step leaves
\* every other slot alone; the semaphore (permit count and waiter list) is
\* changed by a coroutine's acquire and release steps only.
C17_DisjointSlotsSharedPermitsOnly ==
    /\ [][\A i \in Items :
            taskResult'[i] # taskResult[i] =>
                /\ TaskFinish(i)
                /\ taskResult[i] = NoOutcome
                /\ taskResult'[i] = remote[i]
                /\ \A j \in Items \ {i} : taskResult'[j] = taskResult[j]]_vars
    /\ [][value' # value => \E i \in Items : TaskStart(i) \/ TaskFinish(i)]_vars
    /\ [][waiters' # waiters => \E i \in Items : TaskStart(i) \/ TaskWake(i)]_vars

\* C17 witness: one item's slot is written while another item's operation
\* is still in flight with its slot empty.
C17_Witness ==
    \E i, j \in Items :
        /\ taskResult[i] # NoOutcome
        /\ tpc[j] = "inflight" /\ taskResult[j] = NoOutcome

----
(***************************************************************************)
(* examples/dotenv_example.py: main() and the process environment.         *)
(* os.environ is a function from the names that are set to their values.   *)
(***************************************************************************)

\* example_basic_dotenv: env_content (lines 61-70).
BasicEnvFile ==
    "NOCODB_BASE_URL" :> "https://your-nocodb-instance.com" @@
    "NOCODB_API_TOKEN" :> "your-api-token-here" @@
    "NOCODB_TIMEOUT" :> "60.0" @@
    "NOCODB_MAX_RETRIES" :> "3" @@
    "NOCODB_DEBUG" :> "false"

\* example_multiple_environments: dev_env, staging_env, prod_env
\* (lines 107-132).
DevEnvFile ==
    "NOCODB_BASE_URL" :> "http://localhost:8080" @@
    "NOCODB_API_TOKEN" :> "dev-token-12345" @@
    "NOCODB_TIMEOUT" :> "10.0" @@
    "NOCODB_DEBUG" :> "true" @@
    "NOCODB_LOG_LEVEL" :> "DEBUG"

StagingEnvFile ==
    "NOCODB_BASE_URL" :> "https://staging.nocodb.example.com" @@
    "NOCODB_API_TOKEN" :> "staging-token-67890" @@
    "NOCODB_TIMEOUT" :> "30.0" @@
    "NOCODB_DEBUG" :> "false" @@
    "NOCODB_LOG_LEVEL" :> "INFO"

ProdEnvFile ==
    "NOCODB_BASE_URL" :> "https://nocodb.example.com" @@
    "NOCODB_API_TOKEN" :> "prod-token-secure" @@
    "NOCODB_TIMEOUT" :> "120.0" @@
    "NOCODB_DEBUG" :> "false" @@
    "NOCODB_LOG_LEVEL" :> "WARNING" @@
    "NOCODB_VERIFY_SSL" :> "true"

\* The files written to tmpdir, by the app_env in their name
\* (.env.development, .env.staging, .env.production; lines 135-143).
Envs ==
    "development" :> DevEnvFile @@
    "staging" :> StagingEnvFile @@
    "production" :> ProdEnvFile

\* example_dotenv_values: env_content (lines 235-239).
IsolatedEnvFile ==
    "NOCODB_BASE_URL" :> "https://isolated-example.com" @@
    "NOCODB_API_TOKEN" :> "isolated-token" @@
    "NOCODB_TIMEOUT" :> "45.0"

\* A path that names no file reads as an empty .env.
NoFile == <<>>

\* os.getenv(key, default)
Getenv(env, key, default) == IF key \in DOMAIN env THEN env[key] ELSE default

\* load_dotenv(path, override=...): every variable of the file is put into
\* the environment, except that without override a name already set keeps
\* its value.
LoadDotenv(env, file, override) ==
    [k \in DOMAIN env \cup DOMAIN file |->
        IF k \in DOMAIN file /\ (override \/ k \notin DOMAIN env)
        THEN file[k] ELSE env[k]]

\* dotenv_values(path): the variables of the file as a dict.
DotenvValues(file) == file

EnvironAfterDotenvValuesLoaded(env, file) == LoadDotenv(env, file, TRUE)

\* os.environ after dotenv_values(path) has run.
EnvironAfterDotenvValues(env, file) == env

\* Marks a variable left out of a start environment.
Unset == "<unset>"

\* Environments the process may be started in.
StartBaseUrls == {Unset, "https://isolated-example.com",
                  "http://localhost:8080", "https://preset.example.com", ""}
StartAppEnvs == {Unset, "development", "staging", "production", "qa"}
StartTokens == {Unset, "preset-token"}
StartTimeouts == {Unset, "5.0"}

OnlySet(f) == [k \in {x \in DOMAIN f : f[x] # Unset} |-> f[k]]

StartEnvironments ==
    {OnlySet("NOCODB_BASE_URL" :> u @@ "APP_ENV" :> a @@
             "NOCODB_API_TOKEN" :> t @@ "NOCODB_TIMEOUT" :> o) :
        u \in StartBaseUrls, a \in StartAppEnvs,
        t \in StartTokens, o \in StartTimeouts}

\* The dispatch example is not running.
DispatchIdle ==
    /\ n = 0 /\ c = 1 /\ pc = "idle"
    /\ tpc = <<>> /\ value = 0 /\ waiters = <<>> /\ ready = <<>>
    /\ remote = <<>> /\ taskResult = <<>> /\ calls = <<>>
    /\ acquires = 0 /\ nextId = 1
    /\ outer = PendingFuture /\ nfinished = 0
    /\ results = <<>> /\ raisedExc = ""

InitDotenv ==
    /\ DispatchIdle
    /\ environ0 \in StartEnvironments
    /\ environ = environ0
    /\ dpc = "example_basic_dotenv"
    /\ config_dict = <<>>
    /\ printed = ""

\* example_basic_dotenv(): load_dotenv(env_path), without override.
ExampleBasicDotenv ==
    /\ dpc = "example_basic_dotenv"
    /\ environ' = LoadDotenv(environ, BasicEnvFile, FALSE)
    /\ dpc' = "example_multiple_environments"
    /\ UNCHANGED <<environ0, config_dict, printed>>

\* example_multiple_environments(): the file named after APP_ENV
\* ("development" when unset) is loaded with override=True.
ExampleMultipleEnvironments ==
    /\ dpc = "example_multiple_environments"
    /\ LET app_env == Getenv(environ, "APP_ENV", "development")
           env_file == IF app_env \in DOMAIN Envs THEN Envs[app_env] ELSE NoFile
       IN  environ' = LoadDotenv(environ, env_file, TRUE)
    /\ dpc' = "example_secrets_management"
    /\ UNCHANGED <<environ0, config_dict, printed>>

\* example_secrets_management(): prints only.
ExampleSecretsManagement ==
    /\ dpc = "example_secrets_management"
    /\ dpc' = "example_dotenv_values"
    /\ UNCHANGED <<environ0, environ, config_dict, printed>>

\* example_dotenv_values(): dotenv_values(env_path), then the print of
\* os.getenv("NOCODB_BASE_URL", "(not set)").
ExampleDotenvValues ==
    /\ dpc = "example_dotenv_values"
    /\ config_dict' = DotenvValues(IsolatedEnvFile)
    /\ environ' = EnvironAfterDotenvValues(environ, IsolatedEnvFile)
    /\ printed' = Getenv(environ', "NOCODB_BASE_URL", "(not set)")
    /\ dpc' = "example_combined_config"
    /\ UNCHANGED environ0

\* example_combined_config(): prints only.
ExampleCombinedConfig ==
    /\ dpc = "example_combined_config"
    /\ dpc' = "example_docker_cloud"
    /\ UNCHANGED <<environ0, environ, config_dict, printed>>

\* example_docker_cloud(): prints only; main() is over after it.
ExampleDockerCloud ==
    /\ dpc = "example_docker_cloud"
    /\ dpc' = "done"
    /\ UNCHANGED <<environ0, environ, config_dict, printed>>

NextDotenv ==
    \/ ExampleBasicDotenv /\ UNCHANGED dispatchVars
    \/ ExampleMultipleEnvironments /\ UNCHANGED dispatchVars
    \/ ExampleSecretsManagement /\ UNCHANGED dispatchVars
    \/ ExampleDotenvValues /\ UNCHANGED dispatchVars
    \/ ExampleCombinedConfig /\ UNCHANGED dispatchVars
    \/ ExampleDockerCloud /\ UNCHANGED dispatchVars

SpecDotenv == InitDotenv /\ [][NextDotenv]_vars

----
\* example_dotenv_values has run.
AfterDotenvValues ==
    dpc \in {"example_combined_config", "example_docker_cloud", "done"}

\* C18 as stated: after example_dotenv_values the environment still holds
\* what it printed for NOCODB_BASE_URL, and what it printed is never the
\* NOCODB_BASE_URL of the file it read.
C18_PrintsEnvironNeverFileValue ==
    AfterDotenvValues =>
        /\ printed = Getenv(environ, "NOCODB_BASE_URL", "(not set)")
        /\ printed # IsolatedEnvFile["NOCODB_BASE_URL"]

\* C18: example_dotenv_values leaves os.environ as it found it and prints
\* the NOCODB_BASE_URL the earlier steps left there: the one of the file
\* named by APP_ENV if example_multiple_environments found that file,
\* otherwise the one the process started with, otherwise the one of
\* example_basic_dotenv's file.  That is the value of the file just read
\* only if the process started with that very value and APP_ENV names no
\* file.
C18_DotenvValuesLeavesEnviron ==
    /\ [][ExampleDotenvValues =>
            /\ environ' = environ
            /\ printed' = Getenv(environ, "NOCODB_BASE_URL", "(not set)")
            /\ config_dict' = IsolatedEnvFile]_vars
    /\ [](AfterDotenvValues =>
            LET app_env == Getenv(environ0, "APP_ENV", "development")
            IN  /\ printed =
                     IF app_env \in DOMAIN Envs
                     THEN Envs[app_env]["NOCODB_BASE_URL"]
                     ELSE Getenv(environ0, "NOCODB_BASE_URL",
                                 BasicEnvFile["NOCODB_BASE_URL"])
                /\ printed = IsolatedEnvFile["NOCODB_BASE_URL"] =>
                     /\ app_env \notin DOMAIN Envs
                     /\ Getenv(environ0, "NOCODB_BASE_URL", "(not set)")
                            = IsolatedEnvFile["NOCODB_BASE_URL"])

\* C18 witness: example_dotenv_values has read its file and printed the URL
\* that load_dotenv(..., override=True) put into the environment over the
\* one the process started with.
C18_Witness ==
    /\ dpc = "example_combined_config"
    /\ config_dict = IsolatedEnvFile
    /\ Getenv(environ0, "NOCODB_BASE_URL", "(not set)") = "https://preset.example.com"
    /\ printed = "https://staging.nocodb.example.com"
====
